---- MODULE Spec2Model ----
(***************************************************************************)
(* A model of whisperx/asr.py: the FasterWhisperPipeline.transcribe        *)
(* generator, the batching iterator it pulls from, the three model         *)
(* variants of _forward and the confidence filter each applies.            *)
(*                                                                         *)
(* Texts are sequences of one-character strings, so that Python's          *)
(* substring test, strip, split and join are computed character by         *)
(* character.  A character outside ASCII is written "U+XXXX".              *)
(* Scores (avg_logprob, no_speech_prob, compression_ratio) are integers    *)
(* in hundredths: -0.85 is -85, 0.7 is 70, 2 is 200.                       *)
(* Times are integers in units of 0.0001 s.                                *)
(*                                                                         *)
(* Names asr.py uses without importing them (Tokenizer,                    *)
(* TranscriptionOptions, replace, Vad, Pyannote) have their meaning in     *)
(* faster_whisper, dataclasses and whisperx.vads.  The iterator that       *)
(* self.__call__ returns is transformers' PipelineIterator over a torch    *)
(* DataLoader, as get_iterator builds it.                                  *)
(***************************************************************************)
EXTENDS Integers, Sequences, FiniteSets, TLC

VARIABLES
    self,   \* the FasterWhisperPipeline instance: model, tokenizer, options, ...
    gen,    \* the generator object a transcribe(...) call returns, with its frame
    flt     \* one candidate under the confidence filter (specification FilterSpec)

vars == <<self, gen, flt>>

\* Python's None, and a present value, as sequences (so that both compare).
None == <<>>
Some(x) == <<x>>

(***************************************************************************)
(* Python str operations                                                   *)
(***************************************************************************)

IsSpace(c) == c \in {" ", "\t", "\n"}

\* s in text: s occurs in text as a contiguous run of characters.
Contains(s, text) ==
    \E i \in 0..(Len(text) - Len(s)) : SubSeq(text, i + 1, i + Len(s)) = s

RECURSIVE lstrip(_)
lstrip(t) == IF t # <<>> /\ IsSpace(Head(t)) THEN lstrip(Tail(t)) ELSE t

RECURSIVE rstrip(_)
rstrip(t) ==
    IF t # <<>> /\ IsSpace(t[Len(t)]) THEN rstrip(SubSeq(t, 1, Len(t) - 1)) ELSE t

\* text.strip()
strip(t) == rstrip(lstrip(t))

\* The index just past the first word of s (s starts with a non-space).
WordEnd(s) ==
    CHOOSE n \in 1..(Len(s) + 1) :
        /\ (n = Len(s) + 1 \/ IsSpace(s[n]))
        /\ \A k \in 1..(n - 1) : ~IsSpace(s[k])

\* text.split(): the words between runs of whitespace.
RECURSIVE split(_)
split(t) ==
    LET s == lstrip(t)
    IN  IF s = <<>> THEN <<>>
        ELSE <<SubSeq(s, 1, WordEnd(s) - 1)>> \o split(SubSeq(s, WordEnd(s), Len(s)))

\* sep.join(l)
RECURSIVE join(_, _)
join(sep, l) ==
    IF l = <<>> THEN <<>>
    ELSE IF Len(l) = 1 THEN l[1]
    ELSE l[1] \o sep \o join(sep, Tail(l))

(***************************************************************************)
(* The confidence filter                                                   *)
(***************************************************************************)

\* The low-severity phrase list of generate_segment_batched.
suppress_low_batched ==
    << <<"T", "h", "a", "n", "k", " ", "y", "o", "u">>,  \* 'Thank you'
       <<"T", "h", "a", "n", "k", "s", " ", "f", "o", "r">>,  \* 'Thanks for'
       <<"i", "k", "e", " ", "a", "n", "d", " ">>,  \* 'ike and '
       <<"B", "y", "e", ".">>,  \* 'Bye.'
       <<"B", "y", "e", "!">>,  \* 'Bye!'
       <<"B", "y", "e", " ", "b", "y", "e", "!">>,  \* 'Bye bye!'
       <<"l", "e", "a", "s", "e", " ", "s", "u", "b">>,  \* 'lease sub'
       <<"T", "h", "e", " ", "e", "n", "d", ".">> >>  \* 'The end.'

\* The high-severity phrase list of generate_segment_batched.
suppress_high_batched ==
    << <<"u", "b", "s", "c", "r", "i", "b", "e">>,  \* 'ubscribe'
       <<"m", "y", " ", "c", "h", "a", "n", "n", "e", "l">>,  \* 'my channel'
       <<"t", "h", "e", " ", "c", "h", "a", "n", "n", "e", "l">>,  \* 'the channel'
       <<"o", "u", "r", " ", "c", "h", "a", "n", "n", "e", "l">>,  \* 'our channel'
       <<"o", "l", "l", "o", "w", " ", "m", "e", " ", "o", "n">>,  \* 'ollow me on'
       <<"f", "o", "r", " ", "w", "a", "t", "c", "h", "i", "n", "g">>,  \* 'for watching'
       <<"h", "a", "n", "k", " ", "y", "o", "u", " ", "f", "o", "r", " ", "w", "a", "t", "c", "h", "i", "n", "g">>,  \* 'hank you for watching'
       <<"f", "o", "r", " ", "y", "o", "u", "r", " ", "v", "i", "e", "w", "i", "n", "g">>,  \* 'for your viewing'
       <<"r", " ", "v", "i", "e", "w", "i", "n", "g">>,  \* 'r viewing'
       <<"A", "m", "a", "r", "a">>,  \* 'Amara'
       <<"n", "e", "x", "t", " ", "v", "i", "d", "e", "o">>,  \* 'next video'
       <<"f", "u", "l", "l", " ", "v", "i", "d", "e", "o">>,  \* 'full video'
       <<"r", "a", "n", "s", "l", "a", "t", "i", "o", "n", " ", "b", "y">>,  \* 'ranslation by'
       <<"r", "a", "n", "s", "l", "a", "t", "e", "d", " ", "b", "y">>,  \* 'ranslated by'
       <<"e", "e", " ", "y", "o", "u", " ", "n", "e", "x", "t", " ", "w", "e", "e", "k">> >>  \* 'ee you next week'

\* The low-severity phrase list of _forward (openai-whisper branch): no "Thank you".
suppress_low_forward ==
    << <<"T", "h", "a", "n", "k", "s", " ", "f", "o", "r">>,  \* 'Thanks for'
       <<"i", "k", "e", " ", "a", "n", "d", " ">>,  \* 'ike and '
       <<"B", "y", "e", ".">>,  \* 'Bye.'
       <<"B", "y", "e", "!">>,  \* 'Bye!'
       <<"B", "y", "e", " ", "b", "y", "e", "!">>,  \* 'Bye bye!'
       <<"l", "e", "a", "s", "e", " ", "s", "u", "b">>,  \* 'lease sub'
       <<"T", "h", "e", " ", "e", "n", "d", ".">> >>  \* 'The end.'

\* The high-severity phrase list of _forward (openai-whisper branch).
suppress_high_forward ==
    << <<"u", "b", "s", "c", "r", "i", "b", "e">>,  \* 'ubscribe'
       <<"m", "y", " ", "c", "h", "a", "n", "n", "e", "l">>,  \* 'my channel'
       <<"t", "h", "e", " ", "c", "h", "a", "n", "n", "e", "l">>,  \* 'the channel'
       <<"o", "u", "r", " ", "c", "h", "a", "n", "n", "e", "l">>,  \* 'our channel'
       <<"o", "l", "l", "o", "w", " ", "m", "e", " ", "o", "n">>,  \* 'ollow me on'
       <<"f", "o", "r", " ", "w", "a", "t", "c", "h", "i", "n", "g">>,  \* 'for watching'
       <<"h", "a", "n", "k", " ", "y", "o", "u", " ", "f", "o", "r", " ", "w", "a", "t", "c", "h", "i", "n", "g">>,  \* 'hank you for watching'
       <<"H", "U+00E3", "y", " ", "s", "u", "b", "s", "c", "r", "i", "b", "e">>,  \* 'H\xe3y subscribe'
       <<"G", "h", "i", "U+1EC1", "n", " ", "M", "U+00EC", " ", "G", "U+00F5">>,  \* 'Ghi\u1ec1n M\xec G\xf5'
       <<"k", "h", "U+00F4", "n", "g", " ", "b", "U+1ECF", " ", "l", "U+1EE1", " ", "n", "h", "U+1EEF", "n", "g", " ", "v", "i", "d", "e", "o", " ", "h", "U+1EA5", "p", " ", "d", "U+1EAB", "n">>,  \* 'kh\xf4ng b\u1ecf l\u1ee1 nh\u1eefng video h\u1ea5p d\u1eabn'
       <<"k", "U+00EA", "n", "h", " ", "L", "a", " ", "L", "a", " ", "S", "c", "h", "o", "o", "l">> >>  \* 'k\xeanh La La School'

\* avg_logprob -= 0.15 / avg_logprob -= 0.35
P_low == 15
P_high == 35
\* generate_segment_batched: avg_logprob < -1.0 or no_speech_prob > 0.7
T_logprob == -100
T_nospeech == 70
\* _forward: avg_logprob < -0.5 and compression_ratio < 1 (> 2); no_speech_prob > 0.7
T_logprob_forward == -50
T_ratio_low == 100
T_ratio_high == 200
T_nospeech_forward == 70

\* A variant of the penalty loop that charges every occurrence of a phrase.
RECURSIVE ApplyPenaltiesPerOccurrence(_, _, _, _)
ApplyPenaltiesPerOccurrence(avg_logprob, text, suppress, penalty) ==
    IF suppress = <<>> THEN avg_logprob
    ELSE ApplyPenaltiesPerOccurrence(
             avg_logprob - penalty * Cardinality(
                 { i \in 0..(Len(text) - Len(Head(suppress))) :
                     SubSeq(text, i + 1, i + Len(Head(suppress))) = Head(suppress) }),
             text, Tail(suppress), penalty)

\* for s in suppress: if s in text: avg_logprob -= penalty
RECURSIVE ApplyPenalties(_, _, _, _)
ApplyPenalties(avg_logprob, text, suppress, penalty) ==
    IF suppress = <<>> THEN avg_logprob
    ELSE ApplyPenalties(
             IF Contains(Head(suppress), text) THEN avg_logprob - penalty
             ELSE avg_logprob,
             text, Tail(suppress), penalty)

\* One pass of the loop body of generate_segment_batched over a result r of
\* model.generate.  avg_logprob is a local recomputed from r.scores: r is not
\* changed.  The result: the penalised score, the decision, and r afterwards.
filter_batched(r) ==
    LET a1 == ApplyPenalties(r.avg_logprob, r.text, suppress_low_batched, P_low)
        a2 == ApplyPenalties(a1, r.text, suppress_high_batched, P_high)
    IN  [ avg_logprob |-> a2,
          rejected    |-> (a2 < T_logprob \/ r.no_speech_prob > T_nospeech),
          r           |-> r ]

\* A variant of the openai-whisper filter that rejects on avg_logprob < -0.5
\* alone, whatever the compression ratio.
filter_forward_no_ratio(r) ==
    LET a1 == ApplyPenalties(r.avg_logprob, r.text, suppress_low_forward, P_low)
        a2 == ApplyPenalties(a1, r.text, suppress_high_forward, P_high)
    IN  [ avg_logprob |-> a2,
          rejected    |-> \/ a2 < T_logprob_forward
                          \/ r.no_speech_prob > T_nospeech_forward
                          \/ strip(r.text) = <<>>,
          r           |-> [r EXCEPT !.avg_logprob = a2] ]

\* One pass of the loop body of _forward (openai-whisper branch) over a segment
\* r of model.transcribe.  The penalties are subtracted from r["avg_logprob"]
\* in place.
filter_forward(r) ==
    LET a1 == ApplyPenalties(r.avg_logprob, r.text, suppress_low_forward, P_low)
        a2 == ApplyPenalties(a1, r.text, suppress_high_forward, P_high)
    IN  [ avg_logprob |-> a2,
          rejected    |-> \/ (a2 < T_logprob_forward /\ r.compression_ratio < T_ratio_low)
                          \/ (a2 < T_logprob_forward /\ r.compression_ratio > T_ratio_high)
                          \/ r.no_speech_prob > T_nospeech_forward
                          \/ strip(r.text) = <<>>,
          r           |-> [r EXCEPT !.avg_logprob = a2] ]

\* The filter of a model variant that has one.
FilterStep(model, r) ==
    IF model = "WhisperModel" THEN filter_batched(r) ELSE filter_forward(r)

(***************************************************************************)
(* Candidates                                                              *)
(***************************************************************************)

\* Texts a decoder emits.
T_plain == <<" ", "X", "i", "n", " ", "c", "h", "a", "o">>  \* ' Xin chao'
T_thank == <<" ", "T", "h", "a", "n", "k", " ", "y", "o", "u", ".">>  \* ' Thank you.'
T_thank_lower == <<" ", "t", "h", "a", "n", "k", " ", "y", "o", "u", ".">>  \* ' thank you.'
T_thank_watch == <<" ", "T", "h", "a", "n", "k", " ", "y", "o", "u", " ", "f", "o", "r", " ", "w", "a", "t", "c", "h", "i", "n", "g", "!">>  \* ' Thank you for watching!'
T_sub == <<" ", "S", "u", "b", "s", "c", "r", "i", "b", "e">>  \* ' Subscribe'
T_sub_chan == <<" ", "S", "u", "b", "s", "c", "r", "i", "b", "e", " ", "t", "o", " ", "m", "y", " ", "c", "h", "a", "n", "n", "e", "l">>  \* ' Subscribe to my channel'
T_hay_sub == <<" ", "H", "U+00E3", "y", " ", "s", "u", "b", "s", "c", "r", "i", "b", "e">>  \* ' H\xe3y subscribe'
T_bye_sub == <<" ", "B", "y", "e", ".", " ", "B", "y", "e", ".", " ", "S", "u", "b", "s", "c", "r", "i", "b", "e", "!">>  \* ' Bye. Bye. Subscribe!'
T_thank_spaced == <<" ", "T", "h", "a", "n", "k", " ", " ", "y", "o", "u", ".">>  \* ' Thank  you.'
T_blank == <<" ", " ">>  \* '  '
T_empty == <<>>  \* ''
T_next == <<" ", "H", "e", "n", " ", "g", "a", "p", " ", "l", "a", "i">>  \* ' Hen gap lai'

FilterTexts ==
    { T_plain, T_thank, T_thank_lower, T_thank_watch, T_sub, T_sub_chan,
      T_hay_sub, T_bye_sub, T_thank_spaced, T_blank, T_empty }

Logprobs == {-150, -90, -50, -40, -10}
NoSpeechProbs == {10, 70, 80}
CompressionRatios == {50, 100, 150, 200, 250}

\* What model.generate gives per sample (text decoded, avg_logprob as computed
\* from scores and length): no compression ratio.
BatchedCandidates ==
    [ text : FilterTexts, avg_logprob : Logprobs, no_speech_prob : NoSpeechProbs ]

\* A segment of whisper's model.transcribe(...)["segments"].
ForwardCandidates ==
    [ text : FilterTexts, avg_logprob : Logprobs, no_speech_prob : NoSpeechProbs,
      compression_ratio : CompressionRatios ]

RawCandidates(model) ==
    IF model = "WhisperModel" THEN BatchedCandidates ELSE ForwardCandidates

(***************************************************************************)
(* FilterSpec: the filter step applied, and applied again, to one          *)
(* candidate object.                                                       *)
(***************************************************************************)

\* The variants whose outputs pass a filter of this file (the HuggingFace
\* variant returns batch_decode's texts as they are).
FilterModels == {"WhisperModel", "Whisper"}

MaxApply == 2

FilterInit ==
    /\ flt \in UNION { { [ model |-> m, raw |-> r, r |-> r, applied |-> <<>> ] :
                          r \in RawCandidates(m) } : m \in FilterModels }
    /\ self = None
    /\ gen = None

FilterApply ==
    /\ Len(flt.applied) < MaxApply
    /\ LET f == FilterStep(flt.model, flt.r)
       IN  flt' = [ flt EXCEPT
                      !.r = f.r,
                      !.applied = Append(@, [ avg_logprob |-> f.avg_logprob,
                                              rejected    |-> f.rejected ]) ]
    /\ UNCHANGED <<self, gen>>

FilterNext == FilterApply

FilterSpec == FilterInit /\ [][FilterNext]_vars

(***************************************************************************)
(* Properties of the filter (under FilterSpec)                             *)
(***************************************************************************)

Phrase_ThankYou == <<"T", "h", "a", "n", "k", " ", "y", "o", "u">>
Phrase_ubscribe == <<"u", "b", "s", "c", "r", "i", "b", "e">>

HasRatio(r) == "compression_ratio" \in DOMAIN r

\* The number of entries of a phrase list that occur in a text.
MatchCount(suppress, text) ==
    Cardinality({ i \in DOMAIN suppress : Contains(suppress[i], text) })

LowList(model) ==
    IF model = "WhisperModel" THEN suppress_low_batched ELSE suppress_low_forward

HighList(model) ==
    IF model = "WhisperModel" THEN suppress_high_batched ELSE suppress_high_forward

\* C4, as claimed: in every variant the first application of the filter rejects
\* a candidate whose penalised avg_logprob is below -1.0, or whose
\* no_speech_prob is above 0.7, or whose compression ratio (when it has one) is
\* outside [1, 2] with the penalised avg_logprob below -0.5, or whose trimmed
\* text is empty.
C4_RejectsOnAnyTrigger ==
    Len(flt.applied) >= 1 =>
        ( ( \/ flt.applied[1].avg_logprob < -100
            \/ flt.raw.no_speech_prob > 70
            \/ ( /\ HasRatio(flt.raw)
                 /\ flt.applied[1].avg_logprob < -50
                 /\ (flt.raw.compression_ratio < 100 \/ flt.raw.compression_ratio > 200) )
            \/ strip(flt.raw.text) = <<>> )
          => flt.applied[1].rejected )

\* C7, as claimed: the filter step applied a second time to the same candidate
\* gives the decision and the penalised avg_logprob of the first application.
C7_FilterIdempotent ==
    Len(flt.applied) >= 2 => flt.applied[2] = flt.applied[1]

\* C8, as claimed: in every variant a candidate whose text contains "Thank you"
\* and whose raw avg_logprob is -0.9 is charged the low-severity penalty (its
\* score is -1.05, or lower when further phrases occur in it) and is rejected.
C8_ThankYouRejected ==
    ( /\ Len(flt.applied) >= 1
      /\ Contains(Phrase_ThankYou, flt.raw.text)
      /\ flt.raw.avg_logprob = -90 )
    => ( /\ flt.applied[1].avg_logprob <= -105
         /\ flt.applied[1].rejected )

\* The case of C9: the text contains "ubscribe", raw avg_logprob is -0.5,
\* no_speech_prob <= 0.7, and the compression ratio is absent or within [1, 2].
C9_Case ==
    /\ Len(flt.applied) >= 1
    /\ Contains(Phrase_ubscribe, flt.raw.text)
    /\ flt.raw.avg_logprob = -50
    /\ flt.raw.no_speech_prob <= 70
    /\ (HasRatio(flt.raw) =>
            (flt.raw.compression_ratio >= 100 /\ flt.raw.compression_ratio <= 200))

\* C9, as claimed: for every text containing "ubscribe", such a candidate gets
\* the adjusted score -0.85 and is accepted.
C9_Original ==
    C9_Case => (flt.applied[1].avg_logprob = -85 /\ ~flt.applied[1].rejected)

\* C9, amended: in the two variants that filter, when "ubscribe" is the only
\* entry of the variant's two phrase lists that occurs in the text, such a
\* candidate gets the adjusted score -0.85 and is accepted.
C9_SinglePenaltyAccepted ==
    ( /\ C9_Case
      /\ MatchCount(LowList(flt.model), flt.raw.text)
           + MatchCount(HighList(flt.model), flt.raw.text) = 1 )
    => (flt.applied[1].avg_logprob = -85 /\ ~flt.applied[1].rejected)

\* A candidate of the openai-whisper variant at the edge of the case: " Subscribe",
\* -0.5, no_speech_prob 0.7, compression ratio 2, filtered to -0.85 and kept.
C9_Witness ==
    /\ flt.model = "Whisper"
    /\ Len(flt.applied) >= 1
    /\ flt.raw = [ text |-> T_sub, avg_logprob |-> -50, no_speech_prob |-> 70,
                   compression_ratio |-> 200 ]
    /\ flt.applied[1] = [ avg_logprob |-> -85, rejected |-> FALSE ]

\* C10: the penalty the first application subtracts is 0.15 for each entry of
\* the variant's low-severity list that occurs in the text plus 0.35 for each
\* entry of its high-severity list that occurs in it.  An entry occurring twice
\* (" Bye. Bye. Subscribe!") is charged once; an entry in another case
\* (" thank you.") or with other spacing (" Thank  you.") is not charged.
C10_PenaltyPerMatchingEntry ==
    Len(flt.applied) >= 1 =>
        LET penalty == flt.raw.avg_logprob - flt.applied[1].avg_logprob
        IN  /\ penalty = 15 * MatchCount(LowList(flt.model), flt.raw.text)
                         + 35 * MatchCount(HighList(flt.model), flt.raw.text)
            /\ (flt.raw.text = T_bye_sub => penalty = 50)
            /\ (flt.raw.text \in {T_thank_lower, T_thank_spaced, T_plain} => penalty = 0)

\* " Bye. Bye. Subscribe!" has been filtered and charged 0.15 + 0.35.
C10_Witness ==
    /\ Len(flt.applied) >= 1
    /\ flt.raw.text = T_bye_sub
    /\ flt.raw.avg_logprob - flt.applied[1].avg_logprob = 50

(***************************************************************************)
(* The pipeline instance and one transcribe call                           *)
(***************************************************************************)

MaxSegments == 5
MaxVaried == 3

Models == {"Whisper", "HuggingfaceWhisperModel", "WhisperModel"}

\* FasterWhisperPipeline.__init__: self._batch_size = kwargs.pop("batch_size", None),
\* and load_model passes no batch_size.
self_batch_size == None

\* a or b, for an optional integer a (None and 0 are falsy).
OrElse(a, b) == IF a = None \/ a = Some(0) THEN b ELSE a

\* Pipeline.__call__: batch_size None becomes self._batch_size, and that None becomes 1.
EffectiveBatchSize(batch_size) ==
    LET b == IF batch_size = None THEN self_batch_size ELSE batch_size
    IN  IF b = None THEN 1 ELSE b[1]

\* The tokenizer's vocabulary below eot, token id i at position i + 1.
Vocab ==
    << <<" ", "t", "h", "e">>, <<" ", "1">>, <<"2", "0">>, <<" ", "%">>,
       <<"a">>, <<"$">>, <<" ">> >>

eot == Len(Vocab)

decode(i) == Vocab[i + 1]

removeprefix(token, prefix) ==
    IF Len(token) >= Len(prefix) /\ SubSeq(token, 1, Len(prefix)) = prefix
    THEN SubSeq(token, Len(prefix) + 1, Len(token))
    ELSE token

NumeralSymbols == {"0", "1", "2", "3", "4", "5", "6", "7", "8", "9", "%", "$", "U+00A3"}

\* find_numeral_symbol_tokens(tokenizer), for a tokenizer that is not None.
find_numeral_symbol_tokens ==
    { i \in 0..(eot - 1) :
        LET token == removeprefix(decode(i), <<" ">>)
        IN  \E k \in 1..Len(token) : token[k] \in NumeralSymbols }

\* round(x, 3) of a time in units of 0.0001 s: to the nearest 0.001 s, a tie
\* to the even one.
round3(t) ==
    LET q == t \div 10
        m == t % 10
    IN  IF m < 5 THEN 10 * q
        ELSE IF m > 5 THEN 10 * (q + 1)
        ELSE IF q % 2 = 0 THEN 10 * q ELSE 10 * (q + 1)

\* The VAD segment i of an audio: 0.0003 + (i - 1) s to i - 0.0004 s.
VadSegment(i) == [ start |-> 10000 * (i - 1) + 3, end |-> 10000 * i - 4 ]

Digit(i) == <<"0", "1", "2", "3", "4", "5", "6", "7", "8", "9">>[i + 1]

\* What is spoken in slice i, and a hallucinated ending.
SliceText(i) == <<" ", "s", "e", "g">> \o <<Digit(i)>>
T_hallucinated(i) == SliceText(i) \o T_thank_watch

\* What the model returns for a slice i where speech is plain, per variant: a
\* result of model.generate, the segments of model.transcribe, a decoded text.
PlainResult(model, i) ==
    IF model = "WhisperModel" THEN
        [ text |-> SliceText(i), avg_logprob |-> -30, no_speech_prob |-> 10 ]
    ELSE IF model = "Whisper" THEN
        << [ text |-> SliceText(i), avg_logprob |-> -30, no_speech_prob |-> 10,
             compression_ratio |-> 150 ] >>
    ELSE SliceText(i)

\* What the model may return for slice i of the audio, per variant.
ModelResults(model, i) ==
    { PlainResult(model, i) } \cup
    ( IF model = "WhisperModel" THEN
          { [ text |-> T_hallucinated(i), avg_logprob |-> -90, no_speech_prob |-> 10 ] }
      ELSE IF model = "Whisper" THEN
          { << [ text |-> T_hallucinated(i), avg_logprob |-> -90, no_speech_prob |-> 10,
                 compression_ratio |-> 250 ] >>,
            << [ text |-> SliceText(i), avg_logprob |-> -30, no_speech_prob |-> 10,
                 compression_ratio |-> 150 ],
               [ text |-> T_next, avg_logprob |-> -60, no_speech_prob |-> 10,
                 compression_ratio |-> 120 ] >> }
      ELSE
          { T_hallucinated(i) } )

Languages == {"vi", "en"}

\* What the model makes of the slices 1..n of an audio: any of its results for
\* the first MaxVaried slices, plain speech in the slices after them.
RECURSIVE RawsOf(_, _)
RawsOf(model, n) ==
    IF n = 0 THEN { <<>> }
    ELSE { Append(f, r) : f \in RawsOf(model, n - 1),
                          r \in IF n <= MaxVaried THEN ModelResults(model, n)
                                 ELSE { PlainResult(model, n) } }

\* An audio: its VAD segments after merge_chunks, what the model makes of each
\* slice, and the language detect_language finds in it.
Audios(model) ==
    UNION { { [ vad_segments |-> [i \in 1..n |-> VadSegment(i)],
                raws         |-> raws,
                spoken       |-> "en" ] : raws \in RawsOf(model, n) } :
            n \in 0..MaxSegments }

BatchSizes == {None} \cup { Some(b) : b \in 0..MaxSegments }

\* self.model.generate_segment_batched(features, tokenizer, options): the texts
\* of the results the filter keeps, in order.
RECURSIVE generate_segment_batched(_)
generate_segment_batched(results) ==
    IF results = <<>> THEN <<>>
    ELSE LET f == filter_batched(Head(results))
         IN  (IF f.rejected THEN <<>> ELSE << Head(results).text >>)
             \o generate_segment_batched(Tail(results))

\* The texts a windowed decode's segments keep: output.append(r["text"]).
RECURSIVE kept_texts(_)
kept_texts(result) ==
    IF result = <<>> THEN <<>>
    ELSE LET f == filter_forward(Head(result))
         IN  (IF f.rejected THEN <<>> ELSE << Head(result).text >>)
             \o kept_texts(Tail(result))

\* _forward, openai-whisper branch, for one input of the batch:
\* " ".join(output), then " ".join(output.split()).
forward_one(result) == join(<<" ">>, split(join(<<" ">>, kept_texts(result))))

\* _forward(model_inputs)["text"] for a batch of slices, given what the model
\* returns for each.
forward(model, batch) ==
    IF model = "Whisper" THEN [k \in 1..Len(batch) |-> forward_one(batch[k])]
    ELSE IF model = "HuggingfaceWhisperModel" THEN batch
    ELSE generate_segment_batched(batch)

Min(a, b) == IF a < b THEN a ELSE b

\* The generator before any call, and the one a call creates (nothing of
\* the body has run).  yielded, dispatched and call record what the consumer
\* received, the batches given to forward, and the instance and arguments at
\* the call.
NoGen ==
    [ pc |-> "none", audio |-> [vad_segments |-> <<>>, raws |-> <<>>, spoken |-> "en"],
      batch_size |-> None, language |-> None, task |-> Some("transcribe"),
      previous_suppress_tokens |-> None, segments |-> <<>>,
      loader_pos |-> 0, loader_batch_size |-> None, loader_batch_index |-> None,
      loader_batch_data |-> <<>>, exception |-> None, result |-> None,
      yielded |-> <<>>, dispatched |-> <<>>, call |-> None ]

NewGen(s, audio, batch_size, language) ==
    [ NoGen EXCEPT !.pc = "created", !.audio = audio, !.batch_size = batch_size,
                   !.language = language,
                   !.call = Some([ self |-> s, batch_size |-> batch_size,
                                   language |-> language ]) ]

Raise(s, g, e) == [ self |-> s, gen |-> [g EXCEPT !.pc = "raised", !.exception = Some(e)] ]

\* transcribe, the tokenizer step (model is a WhisperModel): the tokenizer and
\* the language after it.
TokenizerStep(s, g) ==
    IF s.model # "WhisperModel" THEN [ tokenizer |-> s.tokenizer, language |-> g.language ]
    ELSE IF s.tokenizer = None THEN
        LET language == IF g.language = None THEN Some(g.audio.spoken) ELSE g.language
        IN  [ tokenizer |-> Some([ language_code |-> language[1], task |-> g.task[1] ]),
              language  |-> language ]
    ELSE
        LET language == IF g.language = None THEN Some(s.tokenizer[1].language_code)
                        ELSE g.language
        IN  [ tokenizer |-> IF g.task[1] # s.tokenizer[1].task
                               \/ language[1] # s.tokenizer[1].language_code
                            THEN Some([ language_code |-> language[1], task |-> g.task[1] ])
                            ELSE s.tokenizer,
              language  |-> language ]

\* transcribe from its first statement to the for statement: the tokenizer, the
\* numeral-suppression override, batch_size, and the iterator of self.__call__.
Start(s, g) ==
    LET t  == TokenizerStep(s, g)
        s1 == [s EXCEPT !.tokenizer = t.tokenizer]
        g1 == [g EXCEPT !.language = t.language]
        b  == OrElse(g.batch_size, self_batch_size)
    IN  IF s.suppress_numerals /\ t.tokenizer = None
        THEN Raise(s1, g1, "AttributeError")
        ELSE [ self |-> IF s.suppress_numerals
                        THEN [s1 EXCEPT !.options.suppress_tokens =
                                            find_numeral_symbol_tokens \cup @]
                        ELSE s1,
               gen  |-> [ g1 EXCEPT
                            !.pc = "running",
                            !.previous_suppress_tokens =
                                IF s.suppress_numerals THEN Some(s.options.suppress_tokens)
                                ELSE None,
                            !.batch_size = b,
                            !.loader_batch_size =
                                IF EffectiveBatchSize(b) = 1 THEN None
                                ELSE Some(EffectiveBatchSize(b)) ] ]

\* The statements after the for loop, and the return.
Finish(s, g) ==
    LET s1 == IF s.preset_language = None THEN [s EXCEPT !.tokenizer = None] ELSE s
        s2 == IF s.suppress_numerals
              THEN [s1 EXCEPT !.options.suppress_tokens = g.previous_suppress_tokens[1]]
              ELSE s1
    IN  [ self |-> s2,
          gen  |-> [ g EXCEPT !.pc = "returned",
                              !.result = Some([ segments |-> g.segments,
                                                language |-> g.language ]) ] ]

\* The body of the for loop for the output out, up to the yield.
Body(s, g, out) ==
    LET idx == Len(g.segments) + 1
    IN  IF g.batch_size \in {Some(0), Some(1), None} /\ out = <<>>
        THEN Raise(s, g, "IndexError")
        ELSE LET text == IF g.batch_size \in {Some(0), Some(1), None} THEN out[1] ELSE out
                 segment == [ text  |-> text,
                              start |-> round3(g.audio.vad_segments[idx].start),
                              end   |-> round3(g.audio.vad_segments[idx].end) ]
             IN  [ self |-> s,
                   gen  |-> [ g EXCEPT !.pc = "suspended",
                                       !.segments = Append(@, segment),
                                       !.yielded = Append(@, text) ] ]

\* PipelineIterator.loader_batch_item: the next element of the unrolled batch.
LoaderBatchItem(s, g) ==
    LET i == g.loader_batch_index[1]
    IN  IF i >= Len(g.loader_batch_data)
        THEN Raise(s, g, "IndexError")
        ELSE Body(s, [g EXCEPT !.loader_batch_index = Some(i + 1)],
                  g.loader_batch_data[i + 1])

\* The iterator of a DataLoader built with drop_last=True: a last batch
\* shorter than batch_size is never loaded.
Iterate_drop_last(s, g, fail) ==
    LET n == Len(g.audio.vad_segments)
        B == EffectiveBatchSize(g.batch_size)
    IN  IF g.loader_batch_index # None
           /\ g.loader_batch_index[1] < g.loader_batch_size[1]
        THEN LoaderBatchItem(s, g)
        ELSE IF g.loader_pos + B > n THEN Finish(s, g)
        ELSE
          LET hi      == g.loader_pos + B
              slices  == [k \in 1..B |-> g.loader_pos + k]
              batch   == [k \in 1..B |-> g.audio.raws[g.loader_pos + k]]
              g1      == [g EXCEPT !.loader_pos = hi, !.dispatched = Append(@, slices)]
              outputs == forward(s.model, batch)
              observed_batch_size == Len(outputs)
          IN  IF fail THEN Raise(s, g1, "ModelError")
              ELSE IF g.loader_batch_size = None THEN Body(s, g1, outputs)
              ELSE LoaderBatchItem(s,
                     [ g1 EXCEPT
                         !.loader_batch_size =
                             IF 0 < observed_batch_size
                                /\ observed_batch_size < g.loader_batch_size[1]
                             THEN Some(observed_batch_size) ELSE @,
                         !.loader_batch_data = outputs,
                         !.loader_batch_index = Some(0) ])

\* One next() of the iterator get_iterator built, and the loop body on what
\* it gives: the next element of the batch in hand, or the next batch loaded
\* by the DataLoader and dispatched to forward (fail: the model raises), or
\* the end of the loop.
Iterate(s, g, fail) ==
    LET n == Len(g.audio.vad_segments)
    IN  IF g.loader_batch_index # None
           /\ g.loader_batch_index[1] < g.loader_batch_size[1]
        THEN LoaderBatchItem(s, g)
        ELSE IF g.loader_pos = n THEN Finish(s, g)
        ELSE
          LET hi      == Min(g.loader_pos + EffectiveBatchSize(g.batch_size), n)
              slices  == [k \in 1..(hi - g.loader_pos) |-> g.loader_pos + k]
              batch   == [k \in 1..(hi - g.loader_pos) |-> g.audio.raws[g.loader_pos + k]]
              g1      == [g EXCEPT !.loader_pos = hi, !.dispatched = Append(@, slices)]
              outputs == forward(s.model, batch)
              observed_batch_size == Len(outputs)
          IN  IF fail THEN Raise(s, g1, "ModelError")
              ELSE IF g.loader_batch_size = None THEN Body(s, g1, outputs)
              ELSE LoaderBatchItem(s,
                     [ g1 EXCEPT
                         !.loader_batch_size =
                             IF 0 < observed_batch_size
                                /\ observed_batch_size < g.loader_batch_size[1]
                             THEN Some(observed_batch_size) ELSE @,
                         !.loader_batch_data = outputs,
                         !.loader_batch_index = Some(0) ])

\* next(gen): the generator runs to its next yield, its return or an exception.
Resume(s, g, fail) ==
    IF g.pc = "created"
    THEN LET st == Start(s, g)
         IN  IF st.gen.pc = "raised" THEN st ELSE Iterate(st.self, st.gen, fail)
    ELSE Iterate(s, g, fail)

Init ==
    /\ self \in { [ model |-> m, tokenizer |-> c.tokenizer, options |-> [suppress_tokens |-> {-1}],
                    preset_language |-> c.preset_language, suppress_numerals |-> sn ] :
                  m \in Models, sn \in BOOLEAN,
                  c \in { [ tokenizer |-> None, preset_language |-> None ],
                          [ tokenizer |-> Some([language_code |-> "en", task |-> "transcribe"]),
                            preset_language |-> None ],
                          [ tokenizer |-> Some([language_code |-> "vi", task |-> "transcribe"]),
                            preset_language |-> Some("vi") ] } }
    /\ gen = NoGen
    /\ flt = None

\* pipeline.transcribe(audio, batch_size=..., language=...): the generator
\* object is made; no statement of the body runs.
Transcribe ==
    /\ gen.pc = "none"
    /\ \E audio \in Audios(self.model), batch_size \in BatchSizes,
          language \in {None, Some("vi")} :
          gen' = NewGen(self, audio, batch_size, language)
    /\ UNCHANGED <<self, flt>>

\* The consumer pulls the next output, and the model answers every dispatch.
Pull ==
    /\ gen.pc \in {"created", "suspended"}
    /\ LET r == Resume(self, gen, FALSE)
       IN  self' = r.self /\ gen' = r.gen
    /\ UNCHANGED flt

\* The consumer pulls, a batch is dispatched and the model raises.
PullModelRaises ==
    /\ gen.pc \in {"created", "suspended"}
    /\ LET r == Resume(self, gen, TRUE)
       IN  /\ r.gen.exception = Some("ModelError")
           /\ self' = r.self /\ gen' = r.gen
    /\ UNCHANGED flt

\* The consumer stops pulling: the generator is closed (GeneratorExit at the
\* yield, or before the first statement) and nothing more of the body runs.
Close ==
    /\ gen.pc \in {"created", "suspended"}
    /\ gen' = [gen EXCEPT !.pc = "closed"]
    /\ UNCHANGED <<self, flt>>

\* The caller drops a generator that has returned, raised or been closed:
\* nothing of its frame is read again.
Release ==
    /\ gen.pc \in {"returned", "raised", "closed"}
    /\ gen' = NoGen
    /\ UNCHANGED <<self, flt>>

Next == Transcribe \/ Pull \/ PullModelRaises \/ Close \/ Release

Spec == Init /\ [][Next]_vars

(***************************************************************************)
(* Properties of transcribe (under Spec)                                   *)
(***************************************************************************)

\* The text the filter leaves of what the model returned for one slice: the
\* empty text when the candidate is rejected.
ExpectedText(model, raw) ==
    IF model = "WhisperModel"
    THEN (IF filter_batched(raw).rejected THEN <<>> ELSE raw.text)
    ELSE IF model = "Whisper" THEN forward_one(raw)
    ELSE raw

\* A call pulled to its end with the model answering every dispatch.
RECURSIVE RunToEnd(_, _)
RunToEnd(s, g) ==
    IF g.pc \in {"created", "suspended"}
    THEN LET r == Resume(s, g, FALSE) IN RunToEnd(r.self, r.gen)
    ELSE [ self |-> s, gen |-> g ]

\* C1, as claimed: a call pulled to exhaustion has yielded one output and
\* appended one segment per VAD segment, the i-th output being what the filter
\* leaves of slice i (the empty text for a rejected candidate).
C1_OneOutputPerSegment ==
    gen.pc = "returned" =>
        /\ Len(gen.yielded) = Len(gen.audio.vad_segments)
        /\ Len(gen.segments) = Len(gen.audio.vad_segments)
        /\ \A i \in 1..Len(gen.audio.vad_segments) :
               gen.yielded[i] = ExpectedText(self.model, gen.audio.raws[i])

\* C2, as claimed: the i-th appended segment holds the rounded times of
\* vad_segments[i] and the text the filter leaves of slice i.
C2_TextPairedWithItsSegment ==
    \A i \in 1..Len(gen.segments) :
        /\ gen.segments[i].start = round3(gen.audio.vad_segments[i].start)
        /\ gen.segments[i].end = round3(gen.audio.vad_segments[i].end)
        /\ gen.segments[i].text = ExpectedText(self.model, gen.audio.raws[i])

\* C3, as claimed: with suppress_numerals, once a call has ended (returned,
\* raised, or closed by a consumer that stopped pulling) options.suppress_tokens
\* is what it was at the call.
C3_SuppressTokensRestored ==
    (self.suppress_numerals /\ gen.pc \in {"returned", "raised", "closed"})
    => self.options.suppress_tokens = gen.call[1].self.options.suppress_tokens

\* C5, as claimed: no exception of a call comes from the filter's decisions:
\* a call raises only what the model's dispatch or a missing tokenizer raises.
C5_FilterNeverRaises ==
    gen.pc = "raised" => gen.exception \in {Some("ModelError"), Some("AttributeError")}

\* C6, as claimed: a call with batch_size N (the number of segments) that the
\* model answered throughout ends as the call with the same instance, audio and
\* language and batch_size 0, 1 or None ends, with the same texts yielded.
C6_PerSampleEqualsBatched ==
    ( /\ gen.pc \in {"returned", "raised"}
      /\ gen.exception # Some("ModelError")
      /\ gen.call[1].batch_size = Some(Len(gen.audio.vad_segments)) )
    => \A b \in {None, Some(0), Some(1)} :
           LET one == RunToEnd(gen.call[1].self,
                               NewGen(gen.call[1].self, gen.audio, b,
                                      gen.call[1].language)).gen
           IN  one.pc = gen.pc /\ one.yielded = gen.yielded

(***************************************************************************)
(* Dispatch: what the loader hands to the model, and when                  *)
(***************************************************************************)

\* The number of outputs of the k-th dispatched batch: what forward returns
\* for its slices, one item per unrolled element, or the whole return value
\* as one item when the iterator does not unroll (loader_batch_size None).
BatchOutputs(s, g, k) ==
    IF EffectiveBatchSize(g.batch_size) = 1 THEN 1
    ELSE Len(forward(s.model, [j \in 1..Len(g.dispatched[k]) |->
                                   g.audio.raws[g.dispatched[k][j]]]))

RECURSIVE OutputsUpTo(_, _, _)
OutputsUpTo(s, g, k) ==
    IF k = 0 THEN 0 ELSE OutputsUpTo(s, g, k - 1) + BatchOutputs(s, g, k)

\* The batches every output of which has been yielded to the consumer.
FullyConsumed(s, g) ==
    { k \in 1..Len(g.dispatched) : OutputsUpTo(s, g, k) <= Len(g.yielded) }

\* C11, as claimed: at any moment the number of dispatched batches is at most
\* one more than the number of batches whose outputs were all yielded to the
\* consumer: batch k+1 is dispatched only after every output of batch k has
\* been yielded.
C11_AtMostOneBatchAhead ==
    Len(gen.dispatched) <= 1 + Cardinality(FullyConsumed(self, gen))

\* The batch size of the call as the caller gave it: 0 and None stand for 1.
CallBatchSize(g) ==
    IF g.call[1].batch_size \in {None, Some(0)} THEN 1 ELSE g.call[1].batch_size[1]

Ceil(n, b) == (n + b - 1) \div b

RECURSIVE Flatten(_)
Flatten(batches) ==
    IF batches = <<>> THEN <<>> ELSE Head(batches) \o Flatten(Tail(batches))

\* C12: for N segments and batch size B the dispatched batches are consecutive
\* runs of the segment sequence in input order, each segment in one batch at
\* most; every batch but the last of the call holds B segments and the last
\* holds N - B*(ceil(N/B)-1), no entry of a batch being anything but a segment
\* of the audio; a call that returned has dispatched ceil(N/B) batches, which
\* hold every segment.
C12_BatchesPartitionSegments ==
    gen.pc # "none" =>
        LET N == Len(gen.audio.vad_segments)
            B == CallBatchSize(gen)
            d == gen.dispatched
        IN  /\ Flatten(d) = [i \in 1..gen.loader_pos |-> i]
            /\ gen.loader_pos <= N
            /\ Len(d) <= Ceil(N, B)
            /\ \A k \in 1..Len(d) :
                   Len(d[k]) = IF k < Ceil(N, B) THEN B ELSE N - B * (Ceil(N, B) - 1)
            /\ gen.pc = "returned" => (Len(d) = Ceil(N, B) /\ gen.loader_pos = N)

\* A call on 5 segments with batch_size 2 returned after the batches
\* (1, 2), (3, 4) and the short last batch (5).
C12_Witness ==
    /\ gen.pc = "returned"
    /\ Len(gen.audio.vad_segments) = 5
    /\ gen.call[1].batch_size = Some(2)
    /\ gen.dispatched = << <<1, 2>>, <<3, 4>>, <<5>> >>

\* C13, as claimed: on an instance with suppress_numerals, in every sequence
\* of calls a tokenizer is present when find_numeral_symbol_tokens is reached,
\* for every model variant: no call ends on the AttributeError that
\* tokenizer.eot raises on None, the tokenizer a call without preset language
\* left as None being rebuilt by the next call first.
C13_TokenizerPresentForNumerals ==
    self.suppress_numerals => gen.exception # Some("AttributeError")

====
